---- MODULE Spec2Model ----
(***************************************************************************)
(* Model of pc_monitor.py: the byte-size formatter get_size, the sink      *)
(* print_log, the collector ResourceMonitor and the run start_pc_monitor.  *)
(*                                                                         *)
(* Byte counts exceed 32 bits, so an integer is kept as a little-endian    *)
(* sequence of base-1024 limbs without leading zero limbs (0 is <<>>).     *)
(* Python's `bytes /= factor` is a binary64 true division: its result is   *)
(* the quotient rounded to 53 significant bits, ties to even.              *)
(***************************************************************************)
EXTENDS Integers, Sequences, FiniteSets, TLC

VARIABLES
    pc,         \* where the run is
    monitors,   \* the ResourceMonitor objects constructed so far
    console,    \* messages written to standard output
    logfile,    \* messages written to data/computer_resources.log
    calls,      \* the methods invoked so far, in order
    history,    \* for each invocation, what it wrote
    in_bytes,   \* argument `bytes` of a get_size call
    in_suffix,  \* argument `suffix` of a get_size call
    out         \* what that call returned

vars == <<pc, monitors, console, logfile, calls, history, in_bytes, in_suffix, out>>

sizeVars == <<in_bytes, in_suffix, out>>

(***************************************************************************)
(* Bounds of the model.                                                    *)
(***************************************************************************)
MaxLimbs == 7    \* limbs of a byte count handed to get_size
MaxParts == 2    \* disk partitions of the host
MaxAddrs == 2    \* network addresses of the host, over all its interfaces
MaxCalls == 2    \* method calls made on one collector used as an object

(***************************************************************************)
(* get_size                                                                *)
(***************************************************************************)
factor == 1024

units == <<"", "K", "M", "G", "T", "P">>

MantissaBits == 53

RECURSIVE Norm(_)
Norm(m) == IF m = <<>> THEN <<>>
           ELSE IF m[Len(m)] = 0 THEN Norm(SubSeq(m, 1, Len(m) - 1))
           ELSE m

Pow2(n) == <<1, 2, 4, 8, 16, 32, 64, 128, 256, 512, 1024>>[n + 1]

\* the number of significant bits of an integer
BitLength(m) ==
    IF m = <<>> THEN 0
    ELSE 10 * (Len(m) - 1) + CHOOSE k \in 1..10 : Pow2(k - 1) <= m[Len(m)] /\ m[Len(m)] < Pow2(k)

LimbBits(d) == [i \in 1..10 |-> (d \div Pow2(i - 1)) % 2]

RECURSIVE ToBits(_)
ToBits(m) == IF m = <<>> THEN <<>> ELSE LimbBits(m[1]) \o ToBits(Tail(m))

RECURSIVE NormBits(_)
NormBits(b) == IF b = <<>> THEN <<>>
               ELSE IF b[Len(b)] = 0 THEN NormBits(SubSeq(b, 1, Len(b) - 1))
               ELSE b

RECURSIVE BitsValue(_)
BitsValue(b) == IF b = <<>> THEN 0 ELSE b[1] + 2 * BitsValue(Tail(b))

RECURSIVE FromBits(_)
FromBits(b) == IF b = <<>> THEN <<>>
               ELSE IF Len(b) <= 10 THEN <<BitsValue(b)>>
               ELSE <<BitsValue(SubSeq(b, 1, 10))>> \o FromBits(SubSeq(b, 11, Len(b)))

Zeros(n) == IF n <= 0 THEN <<>> ELSE [i \in 1..n |-> 0]

RECURSIVE IncBits(_)
IncBits(b) == IF b = <<>> THEN <<1>>
              ELSE IF b[1] = 0 THEN <<1>> \o Tail(b)
              ELSE <<0>> \o IncBits(Tail(b))

\* does dropping the low s bits of b round the rest up (ties to even)
RoundsUp(b, s) == b[s] = 1 /\ ((\E i \in 1..(s - 1) : b[i] = 1) \/ b[s + 1] = 1)

\* b with its low s bits rounded away
RoundBits(b, s) ==
    Zeros(s) \o (IF RoundsUp(b, s) THEN IncBits(SubSeq(b, s + 1, Len(b)))
                 ELSE SubSeq(b, s + 1, Len(b)))

\* int -> binary64: round to 53 significant bits, ties to even
RoundToDouble(m) ==
    IF BitLength(m) <= MantissaBits THEN m
    ELSE Norm(FromBits(RoundBits(NormBits(ToBits(m)), BitLength(m) - MantissaBits)))

\* the Python value of `bytes`: the number m / factor^e (e = divisions so far)
Number(m) == [m |-> Norm(m), e |-> 0]

\* bytes /= factor
TrueDiv(x) == IF x.e = 0 THEN [m |-> RoundToDouble(x.m), e |-> 1]
              ELSE [m |-> x.m, e |-> x.e + 1]

\* (bytes <= factor)
AtMostFactor(x) == Len(x.m) <= x.e + 1 \/ x.m = Zeros(x.e + 1) \o <<1>>

\* bytes < factor
LessThanFactor(x) == Len(x.m) <= x.e + 1

RECURSIVE MulSmall(_, _, _)
MulSmall(m, c, carry) ==
    IF m = <<>> THEN (IF carry = 0 THEN <<>> ELSE <<carry % factor>> \o MulSmall(<<>>, c, carry \div factor))
    ELSE LET p == m[1] * c + carry
         IN <<p % factor>> \o MulSmall(Tail(m), c, p \div factor)

RECURSIVE LimbsValue(_)
LimbsValue(m) == IF m = <<>> THEN 0 ELSE m[1] + factor * LimbsValue(Tail(m))

\* q plus a remainder (its top limb, and whether lower limbs are nonzero), to nearest, ties to even
RoundHalfEven(q, top, low) ==
    IF top > factor \div 2 \/ (top = factor \div 2 /\ (low \/ q % 2 = 1)) THEN q + 1 ELSE q

\* p / factor^e to the nearest integer
ScaleDown(p, e) ==
    RoundHalfEven(LimbsValue(SubSeq(p, e + 1, Len(p))),
                  IF e = 0 THEN 0 ELSE p[e],
                  \E i \in 1..(e - 1) : p[i] # 0)

\* the value in hundredths, rounded half-to-even as '.2f' rounds a binary64
Hundredths(x) == ScaleDown(MulSmall(x.m, 100, 0) \o Zeros(x.e), x.e)

\* a number of hundredths written with two decimal digits
Fixed2(h) ==
    ToString(h \div 100) \o "." \o ToString((h % 100) \div 10) \o ToString(h % 10)

\* f'{bytes:.2f}'
Format2f(x) == Fixed2(Hundredths(x))

NoneResult == [isNone |-> TRUE, str |-> "None"]

RECURSIVE size_loop(_, _, _)
size_loop(x, i, suffix) ==
    IF i > Len(units) THEN NoneResult
    ELSE IF LessThanFactor(x)
         THEN [isNone |-> FALSE, str |-> Format2f(x) \o units[i] \o suffix]
         ELSE size_loop(TrueDiv(x), i + 1, suffix)

get_size(bytes, suffix) == size_loop(Number(bytes), 1, suffix)

(***************************************************************************)
(* The sink: logging.info writes the log file, print writes the console.   *)
(* A write is a record naming its target and the message written.          *)
(***************************************************************************)
Fact(key, subj, val) == [kind |-> "fact", key |-> key, subj |-> subj, val |-> val]
Title(key, subj) == [kind |-> "title", key |-> key, subj |-> subj, val |-> ""]
Banner(key, subj, n) == [kind |-> "title", key |-> key, subj |-> subj, val |-> n]

logging_info(msg) == <<[to |-> "log", msg |-> msg]>>
print(msg) == <<[to |-> "console", msg |-> msg]>>

\* (a sink that forgets the log)
print_only(text) == print(text)

print_log(text) == logging_info(text) \o print(text)

Written(ops, target) ==
    LET sel == SelectSeq(ops, LAMBDA w : w.to = target)
    IN [i \in 1..Len(sel) |-> sel[i].msg]

\* a section heading: decorated on the console, bare in the log
heading(key, subj, n) == print(Banner(key, subj, n)) \o logging_info(Title(key, subj))

\* what a method did: its writes, and whether it raised
Returned(ops) == [ops |-> ops, raised |-> FALSE]
Raised(ops) == [ops |-> ops, raised |-> TRUE]

\* str() of a float holding a whole number
FloatStr(p) == ToString(p) \o ".0"

\* a small int as limbs
Limbs(n) == IF n = 0 THEN <<>> ELSE <<n>>

\* bool() of a tuple
PyBool(t) == Len(t) # 0

(***************************************************************************)
(* ResourceMonitor: the methods read the object `self`; `os` is the state  *)
(* of the host at the time of the call, answering the queries made then.   *)
(***************************************************************************)
system_info(self, os) ==
    Returned(heading("system", "", "==========")
             \o print_log(Fact("system", "", self.uname.system))
             \o print_log(Fact("node", "", self.uname.node))
             \o print_log(Fact("release", "", self.uname.release))
             \o print_log(Fact("version", "", self.uname.version))
             \o print_log(Fact("machine", "", self.uname.machine))
             \o print_log(Fact("processor", "", self.uname.processor)))

RECURSIVE core_lines(_, _)
core_lines(percents, i) ==
    IF i > Len(percents) THEN <<>>
    ELSE print_log(Fact("core_load", ToString(i - 1), FloatStr(percents[i]) \o "%"))
         \o core_lines(percents, i + 1)

proc_info(self, os) ==
    LET head == heading("proc", "", "==========")
                \o print_log(Fact("physical_cores", "", ToString(os.cpu_count.physical)))
                \o print_log(Fact("logical_cores", "", ToString(os.cpu_count.logical)))
    IN IF self.cpufreq.isNone
       THEN Raised(head)
       ELSE Returned(head
                \o print_log(Fact("freq_max", "", Fixed2(self.cpufreq.max) \o "MHz"))
                \o print_log(Fact("freq_min", "", Fixed2(self.cpufreq.min) \o "MHz"))
                \o print_log(Fact("freq_current", "", Fixed2(self.cpufreq.current) \o "MHz"))
                \o core_lines(os.cpu_percent_percpu, 1)
                \o print_log(Fact("cpu_load", "", FloatStr(os.cpu_percent) \o "%")))

\* (one label for every family)
same_label(family) == "MAC"

address_label(family) ==
    IF family = "AddressFamily.AF_INET" THEN "IP"
    ELSE IF family = "AddressFamily.AF_PACKET" THEN "MAC"
    ELSE "MAC"

RECURSIVE address_lines(_, _, _)
address_lines(name, addrs, j) ==
    IF j > Len(addrs) THEN <<>>
    ELSE LET address == addrs[j]
         IN heading("interface", name, "=====")
            \o print_log(Fact("if_type", name, address.family))
            \o print_log(Fact(address_label(address.family), name, address.address))
            \o print_log(Fact("netmask", name, address.netmask))
            \o print_log(Fact("broadcast", name, address.broadcast))
            \o address_lines(name, addrs, j + 1)

RECURSIVE interface_lines(_, _)
interface_lines(if_addrs, i) ==
    IF i > Len(if_addrs) THEN <<>>
    ELSE address_lines(if_addrs[i].name, if_addrs[i].addrs, 1)
         \o interface_lines(if_addrs, i + 1)

network_info(self, os) ==
    Returned(heading("network", "", "==========")
             \o interface_lines(self.if_addrs, 1)
             \o print_log(Fact("bytes_sent", "", get_size(self.net_io.bytes_sent, "B").str))
             \o print_log(Fact("bytes_recv", "", get_size(self.net_io.bytes_recv, "B").str)))

disk_head(partition) ==
    heading("partition", partition.device, "=====")
    \o print_log(Fact("fstype", partition.device, partition.fstype))

disk_body(partition, partition_usage) ==
    print_log(Fact("disk_total", partition.device, get_size(partition_usage.total, "B").str))
    \o print_log(Fact("disk_used", partition.device, get_size(partition_usage.used, "B").str))
    \o print_log(Fact("disk_free", partition.device, get_size(partition_usage.free, "B").str))
    \o print_log(Fact("disk_percent", partition.device, get_size(Limbs(partition_usage.percent), "B").str))

After(ops, rest) == [ops |-> ops \o rest.ops, raised |-> rest.raised]

\* (break where the code has continue)
RECURSIVE disk_loop_break(_, _, _)
disk_loop_break(partitions, os, i) ==
    IF i > Len(partitions) THEN Returned(<<>>)
    ELSE IF os.disk_usage[partitions[i].mountpoint].raises = "PermissionError"
    THEN Returned(disk_head(partitions[i]))
    ELSE IF os.disk_usage[partitions[i].mountpoint].raises # "no"
    THEN Raised(disk_head(partitions[i]))
    ELSE After(disk_head(partitions[i])
               \o disk_body(partitions[i], os.disk_usage[partitions[i].mountpoint].usage),
               disk_loop_break(partitions, os, i + 1))

\* (except Exception where the code has except PermissionError)
RECURSIVE disk_loop_catch_all(_, _, _)
disk_loop_catch_all(partitions, os, i) ==
    IF i > Len(partitions) THEN Returned(<<>>)
    ELSE IF os.disk_usage[partitions[i].mountpoint].raises # "no"
    THEN After(disk_head(partitions[i]), disk_loop_catch_all(partitions, os, i + 1))
    ELSE After(disk_head(partitions[i])
               \o disk_body(partitions[i], os.disk_usage[partitions[i].mountpoint].usage),
               disk_loop_catch_all(partitions, os, i + 1))

RECURSIVE disk_loop(_, _, _)
disk_loop(partitions, os, i) ==
    IF i > Len(partitions) THEN Returned(<<>>)
    ELSE IF os.disk_usage[partitions[i].mountpoint].raises = "PermissionError"
    THEN After(disk_head(partitions[i]), disk_loop(partitions, os, i + 1))
    ELSE IF os.disk_usage[partitions[i].mountpoint].raises # "no"
    THEN Raised(disk_head(partitions[i]))
    ELSE After(disk_head(partitions[i])
               \o disk_body(partitions[i], os.disk_usage[partitions[i].mountpoint].usage),
               disk_loop(partitions, os, i + 1))

disk_info(self, os) ==
    LET loop == disk_loop(self.partitions, os, 1)
    IN [ops |-> heading("disk", "", "==========") \o loop.ops, raised |-> loop.raised]

\* (memory read from the host at the time of the call)
svmem_requeried(self, os) == os.virtual_memory

\* self.svmem
svmem(self, os) == self.svmem

ram_info(self, os) ==
    LET ram == heading("ram", "", "==========")
               \o print_log(Fact("ram_total", "", get_size(svmem(self, os).total, "B").str))
               \o print_log(Fact("ram_available", "", get_size(svmem(self, os).available, "B").str))
               \o print_log(Fact("ram_used", "", get_size(svmem(self, os).used, "B").str))
               \o print_log(Fact("ram_percent", "", get_size(Limbs(svmem(self, os).percent), "B").str))
    IN IF PyBool(self.swap)
       THEN Returned(ram
                \o heading("swap", "", "=====")
                \o print_log(Fact("swap_total", "", get_size(self.swap[1], "B").str))
                \o print_log(Fact("swap_free", "", get_size(self.swap[3], "B").str))
                \o print_log(Fact("swap_used", "", get_size(self.swap[2], "B").str))
                \o print_log(Fact("swap_percent", "", FloatStr(self.swap[4]) \o "%")))
       ELSE Returned(ram)

(***************************************************************************)
(* The host: what the OS queries answer.                                   *)
(***************************************************************************)
GiB(n) == <<0, 0, 0, n>>

Unames == {[system |-> "Linux", node |-> "host1", release |-> "6.1.0",
            version |-> "#1 SMP", machine |-> "x86_64", processor |-> ""]}

\* psutil.cpu_freq(): None without a frequency sensor, else MHz (in hundredths)
CpuFreqs == {[isNone |-> TRUE, current |-> 0, min |-> 0, max |-> 0],
             [isNone |-> FALSE, current |-> 180050, min |-> 80000, max |-> 240000]}

\* psutil.swap_memory(): sswap(total, used, free, percent, sin, sout)
SwapMemories == {<<<<>>, <<>>, <<>>, 0, <<>>, <<>>>>,
                 <<GiB(2), GiB(1), GiB(1), 50, <<5>>, <<7>>>>}

VirtualMemories == {[total |-> GiB(8), available |-> GiB(8), used |-> <<>>, percent |-> 0],
                    [total |-> GiB(8), available |-> GiB(6), used |-> GiB(2), percent |-> 25]}

Partition(i) == [device |-> "/dev/sda" \o ToString(i), mountpoint |-> "/mnt" \o ToString(i),
                 fstype |-> "ext4"]

PartitionLists == {[i \in 1..n |-> Partition(i)] : n \in 0..MaxParts}

Mountpoints == {Partition(i).mountpoint : i \in 1..MaxParts}

Addresses == {[family |-> "AddressFamily.AF_INET", address |-> "192.168.1.10",
               netmask |-> "255.255.255.0", broadcast |-> "192.168.1.255"],
              [family |-> "AddressFamily.AF_PACKET", address |-> "aa:bb:cc:dd:ee:ff",
               netmask |-> "None", broadcast |-> "ff:ff:ff:ff:ff:ff"],
              [family |-> "AddressFamily.AF_INET6", address |-> "fe80::1",
               netmask |-> "ffff:ffff:ffff:ffff::", broadcast |-> "None"]}

\* the interfaces of a host: its addresses f in order, a new interface beginning
\* at position 1 and after each position of cuts
Starts(cuts) == {1} \cup {c + 1 : c \in cuts}

NthStart(cuts, g) == CHOOSE s \in Starts(cuts) : Cardinality({t \in Starts(cuts) : t <= s}) = g

LastOf(cuts, g, k) == IF g = Cardinality(Starts(cuts)) THEN k ELSE NthStart(cuts, g + 1) - 1

Table(f, cuts) ==
    IF Len(f) = 0 THEN <<>>
    ELSE [g \in 1..Cardinality(Starts(cuts)) |->
             [name |-> "eth" \o ToString(g),
              addrs |-> SubSeq(f, NthStart(cuts, g), LastOf(cuts, g, Len(f)))]]

\* psutil.net_if_addrs(): a dict, kept as its items in insertion order
IfAddrs == UNION {{Table(f, cuts) : f \in [1..k -> Addresses], cuts \in SUBSET (1..(k - 1))} :
                     k \in 0..MaxAddrs}

RECURSIVE AddressCount(_)
AddressCount(table) ==
    IF table = <<>> THEN 0 ELSE Len(table[1].addrs) + AddressCount(Tail(table))

NetIoCounters == {[bytes_sent |-> <<0, 512, 3>>, bytes_recv |-> <<100, 0, 0, 1>>]}

\* psutil.disk_usage(mountpoint): a usage tuple, or an exception
DiskUsages == {[total |-> GiB(100), used |-> GiB(40), free |-> GiB(60), percent |-> 40],
               [total |-> GiB(100), used |-> GiB(41), free |-> GiB(59), percent |-> 41]}

DiskAnswers == {[raises |-> "no", usage |-> u] : u \in DiskUsages}
               \cup {[raises |-> e, usage |-> CHOOSE u \in DiskUsages : u.percent = 40] :
                         e \in {"PermissionError", "OSError"}}

\* psutil.cpu_count and psutil.cpu_percent (whole percents)
CpuAnswers == {[cpu_count |-> [physical |-> 1, logical |-> 1],
                cpu_percent_percpu |-> <<0>>, cpu_percent |-> 0],
               [cpu_count |-> [physical |-> 1, logical |-> 2],
                cpu_percent_percpu |-> <<100, 0>>, cpu_percent |-> 50]}

\* the hosts a collector may be constructed on: what the queries of __init__ answer
Hosts == [uname : Unames, cpu_freq : CpuFreqs, swap_memory : SwapMemories,
          virtual_memory : {CHOOSE v \in VirtualMemories : v.percent = 0},
          disk_partitions : PartitionLists,
          net_if_addrs : IfAddrs, net_io_counters : NetIoCounters]

\* those with at most one partition and one address
SmallHosts == {h \in Hosts : Len(h.disk_partitions) <= 1 /\ AddressCount(h.net_if_addrs) <= 1}

\* the host at the time of a call, answering the queries the methods make
QuietHost ==
    [cpu_count |-> [physical |-> 1, logical |-> 1],
     cpu_percent_percpu |-> <<0>>,
     cpu_percent |-> 0,
     virtual_memory |-> CHOOSE v \in VirtualMemories : v.percent = 0,
     disk_usage |-> [m \in Mountpoints |-> CHOOSE a \in DiskAnswers : a.raises = "no" /\ a.usage.percent = 40]]

\* the states the host may be in when a method of `self` runs
HostsAt(method, self) ==
    IF method = "proc_info"
    THEN {[QuietHost EXCEPT !.cpu_count = c.cpu_count, !.cpu_percent_percpu = c.cpu_percent_percpu,
                            !.cpu_percent = c.cpu_percent] : c \in CpuAnswers}
    ELSE IF method = "disk_info"
    THEN {[QuietHost EXCEPT !.disk_usage = d] :
             d \in {x \in [Mountpoints -> DiskAnswers] :
                       \A m \in Mountpoints :
                           (\A p \in 1..Len(self.partitions) : self.partitions[p].mountpoint # m)
                           => x[m] = QuietHost.disk_usage[m]}}
    ELSE IF method = "ram_info"
    THEN {[QuietHost EXCEPT !.virtual_memory = v] : v \in VirtualMemories}
    ELSE {QuietHost}

(***************************************************************************)
(* ResourceMonitor.__init__                                                *)
(***************************************************************************)
ResourceMonitor(os) ==
    [uname |-> os.uname,
     cpufreq |-> os.cpu_freq,
     swap |-> os.swap_memory,
     svmem |-> os.virtual_memory,
     partitions |-> os.disk_partitions,
     if_addrs |-> os.net_if_addrs,
     net_io |-> os.net_io_counters]

method_result(method, self, os) ==
    IF method = "system_info" THEN system_info(self, os)
    ELSE IF method = "proc_info" THEN proc_info(self, os)
    ELSE IF method = "ram_info" THEN ram_info(self, os)
    ELSE IF method = "disk_info" THEN disk_info(self, os)
    ELSE network_info(self, os)

\* (the methods in the order the class defines them)
definition_order == <<"system_info", "proc_info", "network_info", "disk_info", "ram_info">>

\* ResourceMonitor.call_all: the methods in the order it calls them
call_all == <<"system_info", "proc_info", "ram_info", "disk_info", "network_info">>

(***************************************************************************)
(* The run: start_pc_monitor                                               *)
(***************************************************************************)
StaleLog == <<Fact("node", "", "previous run")>>

Init ==
    /\ pc = "start"
    /\ monitors = <<>>
    /\ console = <<>>
    /\ logfile \in {<<>>, StaleLog}
    /\ calls = <<>>
    /\ history = <<>>
    /\ in_bytes = <<>>
    /\ in_suffix = "B"
    /\ out = NoneResult

\* logging.basicConfig(filename=..., filemode="w")
start_logger ==
    /\ pc = "start"
    /\ logfile' = <<>>
    /\ pc' = "logger"
    /\ UNCHANGED <<monitors, console, calls, history, sizeVars>>

\* monitor = ResourceMonitor()
Construct(hosts, after) ==
    /\ \E os \in hosts :
          monitors' = Append(monitors, ResourceMonitor(os))
    /\ pc' = after
    /\ UNCHANGED <<console, logfile, calls, history, sizeVars>>

\* one method call on the collector
Invoke(method, after) ==
    \E os \in HostsAt(method, monitors[Len(monitors)]) :
        LET r == method_result(method, monitors[Len(monitors)], os)
        IN /\ console' = console \o Written(r.ops, "console")
           /\ logfile' = logfile \o Written(r.ops, "log")
           /\ calls' = Append(calls, method)
           /\ history' = Append(history, [method |-> method, os |-> os,
                                          lines |-> Written(r.ops, "log"), raised |-> r.raised])
           /\ pc' = IF r.raised THEN "crashed" ELSE after
           /\ UNCHANGED <<monitors, sizeVars>>

\* monitor.call_all(): is `method` the next call of its body
IsNextCall(method) ==
    /\ pc = "call_all"
    /\ Len(calls) < Len(call_all)
    /\ call_all[Len(calls) + 1] = method

AfterCall == IF Len(calls) + 1 = Len(call_all) THEN "done" ELSE "call_all"

NewMonitor ==
    /\ pc = "logger"
    /\ Construct(Hosts, "call_all")

\* a query of __init__ raises
NewMonitorFails ==
    /\ pc = "logger"
    /\ pc' = "crashed"
    /\ UNCHANGED <<monitors, console, logfile, calls, history, sizeVars>>

call_system_info ==
    /\ IsNextCall("system_info")
    /\ Invoke("system_info", AfterCall)

call_proc_info ==
    /\ IsNextCall("proc_info")
    /\ Invoke("proc_info", AfterCall)

call_ram_info ==
    /\ IsNextCall("ram_info")
    /\ Invoke("ram_info", AfterCall)

call_disk_info ==
    /\ IsNextCall("disk_info")
    /\ Invoke("disk_info", AfterCall)

call_network_info ==
    /\ IsNextCall("network_info")
    /\ Invoke("network_info", AfterCall)

Next ==
    \/ start_logger
    \/ NewMonitor
    \/ NewMonitorFails
    \/ call_system_info
    \/ call_proc_info
    \/ call_ram_info
    \/ call_disk_info
    \/ call_network_info

Spec == Init /\ [][Next]_vars

(***************************************************************************)
(* A collector used as an object: its methods called in any order, any     *)
(* number of times, while the host changes between the calls.              *)
(***************************************************************************)
InitObject ==
    /\ pc = "logger"
    /\ monitors = <<>>
    /\ console = <<>>
    /\ logfile = <<>>
    /\ calls = <<>>
    /\ history = <<>>
    /\ in_bytes = <<>>
    /\ in_suffix = "B"
    /\ out = NoneResult

CanCall == pc = "object" /\ Len(calls) < MaxCalls

ObjectNew ==
    /\ pc = "logger"
    /\ Construct(SmallHosts, "object")

object_system_info ==
    /\ CanCall
    /\ Invoke("system_info", "object")

object_proc_info ==
    /\ CanCall
    /\ Invoke("proc_info", "object")

object_ram_info ==
    /\ CanCall
    /\ Invoke("ram_info", "object")

object_disk_info ==
    /\ CanCall
    /\ Invoke("disk_info", "object")

object_network_info ==
    /\ CanCall
    /\ Invoke("network_info", "object")

NextObject ==
    \/ ObjectNew
    \/ object_system_info
    \/ object_proc_info
    \/ object_ram_info
    \/ object_disk_info
    \/ object_network_info

SpecObject == InitObject /\ [][NextObject]_vars

(***************************************************************************)
(* get_size called on its own.                                             *)
(***************************************************************************)
LowLimbs == {0, 1, 128, 959, 960, 1023}
HighLimbs == {0, 1, 1023}

ByteCounts ==
    {<<>>} \cup {<<d>> : d \in LowLimbs \ {0}}
    \cup UNION {{<<d>> \o h \o <<t>> : d \in LowLimbs, h \in [1..(n - 2) -> HighLimbs],
                                       t \in HighLimbs \ {0}} : n \in 2..MaxLimbs}

Suffixes == {"B", ""}

InitSize ==
    /\ pc = "get_size"
    /\ monitors = <<>>
    /\ console = <<>>
    /\ logfile = <<>>
    /\ calls = <<>>
    /\ history = <<>>
    /\ in_bytes \in ByteCounts
    /\ in_suffix \in Suffixes
    /\ out = NoneResult

call_get_size ==
    /\ pc = "get_size"
    /\ out' = get_size(in_bytes, in_suffix)
    /\ pc' = "returned"
    /\ UNCHANGED <<monitors, console, logfile, calls, history, in_bytes, in_suffix>>

NextSize == call_get_size

SpecSize == InitSize /\ [][NextSize]_vars

(***************************************************************************)
(* Properties.                                                             *)
(***************************************************************************)
Entries(method) == {i \in 1..Len(history) : history[i].method = method}

Facts(lines) == SelectSeq(lines, LAMBDA l : l.kind = "fact")

Keys(lines) == [i \in 1..Len(lines) |-> lines[i].key]

Only(lines, keys) == SelectSeq(lines, LAMBDA l : l.key \in keys)

Without(lines, keys) == SelectSeq(lines, LAMBDA l : l.key \notin keys)

About(lines, subj) == SelectSeq(lines, LAMBDA l : l.kind = "fact" /\ l.subj = subj)

RECURSIVE AllLines(_)
AllLines(h) == IF h = <<>> THEN <<>> ELSE h[1].lines \o AllLines(Tail(h))

SwapKeys == <<"swap", "swap_total", "swap_free", "swap_used", "swap_percent">>
UsageKeys == <<"disk_total", "disk_used", "disk_free", "disk_percent">>
FrequencyKeys == {"freq_max", "freq_min", "freq_current"}
UtilizationKeys == {"core_load", "cpu_load"}
Range(seq) == {seq[i] : i \in 1..Len(seq)}

\* C1: ram_info omits the whole swap section (heading and four lines) when the
\* captured swap has zero total, and emits all four swap fields when it is nonzero.
C1_SwapSectionFollowsTotal ==
    \A i \in Entries("ram_info") :
        LET section == Only(history[i].lines, Range(SwapKeys))
        IN IF monitors[1].swap[1] = <<>>
           THEN section = <<>>
           ELSE Keys(section) = SwapKeys

\* the disk_info calls in which no usage query fails other than by permission
OnlyDenials(e) ==
    \A p \in 1..Len(monitors[1].partitions) :
        e.os.disk_usage[monitors[1].partitions[p].mountpoint].raises # "OSError"

Denied(e, p) == e.os.disk_usage[monitors[1].partitions[p].mountpoint].raises = "PermissionError"

\* C2: disk_info emits, for each partition in enumeration order, its filesystem
\* line; a partition whose usage query is denied emits no usage line, any other
\* one exactly its four usage lines, and a denial never stops the partitions after it.
C2_DeniedPartitionSkipped ==
    \A i \in Entries("disk_info") :
        LET e == history[i]
            parts == monitors[1].partitions
        IN OnlyDenials(e) =>
             /\ ~e.raised
             /\ Only(e.lines, {"fstype"})
                  = [p \in 1..Len(parts) |-> Fact("fstype", parts[p].device, parts[p].fstype)]
             /\ \A p \in 1..Len(parts) :
                  Keys(About(e.lines, parts[p].device))
                    = IF Denied(e, p) THEN <<"fstype">> ELSE <<"fstype">> \o UsageKeys

\* a denied partition followed by a partition whose usage was printed
C2_Witness ==
    \E i \in Entries("disk_info") :
        /\ Len(monitors[1].partitions) >= 2
        /\ OnlyDenials(history[i])
        /\ Denied(history[i], 1)
        /\ ~Denied(history[i], 2)
        /\ Len(About(history[i].lines, monitors[1].partitions[2].device)) = 5

\* C3: without a CPU frequency reading, construction succeeds and proc_info omits
\* the frequency lines without failing, still emits the core counts and the
\* utilization lines, and the run goes on to the later domains.
C3_MissingFrequencyTolerated ==
    \A i \in Entries("proc_info") :
        monitors[1].cpufreq.isNone =>
            /\ ~history[i].raised
            /\ pc # "crashed"
            /\ Only(history[i].lines, FrequencyKeys) = <<>>
            /\ {"physical_cores", "logical_cores", "cpu_load"} \subseteq Range(Keys(history[i].lines))

\* C4: for every b >= 1024^5, b >= 1024^6 included, get_size returns b / 1024^5
\* rendered in the unit "P", never a missing result.
C4_LargestUnitNeverMissing ==
    (pc = "returned" /\ Len(in_bytes) >= 6) =>
        /\ ~out.isNone
        /\ out.str = Fixed2(Hundredths([m |-> RoundToDouble(in_bytes), e |-> 5])) \o "P" \o in_suffix

\* the unit index the claim names: the smallest k with b < 1024^(k+1)
UnitIndex(b) == IF b = <<>> THEN 0 ELSE Len(b) - 1

\* the binary64 value of b / 1024^k
Quotient(b, k) == [m |-> IF k = 0 THEN b ELSE RoundToDouble(b), e |-> k]

Rendered(b, suffix) ==
    Fixed2(Hundredths(Quotient(b, UnitIndex(b))))
    \o <<"", "K", "M", "G", "T", "P">>[UnitIndex(b) + 1] \o suffix

BelowRoundingEdge(b) ==
    \/ Len(b) <= 5
    \/ Len(b) = 6 /\ ~(b[1] >= 960 /\ \A i \in 2..6 : b[i] = 1023)

C6_AsStated ==
    \A i, j \in 1..Len(history) :
        history[i].method = history[j].method =>
            Without(history[i].lines, UtilizationKeys) = Without(history[j].lines, UtilizationKeys)

\* the lines whose values the methods query when called
CallTimeKeys == UtilizationKeys \cup {"physical_cores", "logical_cores"} \cup Range(UsageKeys)

\* C6 (amended): two calls of one method that return emit identical values,
\* except the values queried at call time: the CPU utilization and the core
\* counts in proc_info, the usage figures of a partition in disk_info.
C6_SnapshotFrozen ==
    \A i, j \in 1..Len(history) :
        (history[i].method = history[j].method /\ ~history[i].raised /\ ~history[j].raised) =>
            Without(history[i].lines, CallTimeKeys) = Without(history[j].lines, CallTimeKeys)

\* ram_info called twice, the host's memory having changed in between
C6_Witness ==
    \E i, j \in Entries("ram_info") :
        /\ i < j
        /\ history[i].os.virtual_memory # history[j].os.virtual_memory
        /\ history[i].lines = history[j].lines

\* C7 as stated: at every point of a run the messages written to standard
\* output are the messages written to the log file, in the same order.
C7_AsStated == pc # "start" => console = logfile

Undecorated(lines) ==
    [i \in 1..Len(lines) |-> IF lines[i].kind = "title" THEN [lines[i] EXCEPT !.val = ""] ELSE lines[i]]

\* C7 (amended): every fact line passes through print_log, so the fact lines of
\* console and log are the same sequence; the headings are written apart from
\* it, decorated on the console and bare in the log, so that the console with
\* the decoration removed is the log at every point of a run.
C7_SameFacts ==
    pc # "start" =>
        /\ Facts(console) = Facts(logfile)
        /\ Undecorated(console) = logfile
        /\ \A i \in 1..Len(logfile) : logfile[i].kind = "title" => console[i].val # ""

\* a finished run: facts and headings on both sides
C7_Witness == pc = "done" /\ Len(Facts(logfile)) >= 16 /\ console # logfile

RunOrder == <<"system_info", "proc_info", "ram_info", "disk_info", "network_info">>

\* C8: a run creates one collector, after the sink is initialised, and invokes
\* the methods once each in the order system, CPU, memory, disk, network: a
\* domain's lines follow all lines of the domains before it, and none is
\* invoked twice or skipped unless a call failed.
C8_FixedOrder ==
    /\ Len(monitors) <= 1
    /\ pc \in {"start", "logger"} => (monitors = <<>> /\ calls = <<>>)
    /\ calls # <<>> => Len(monitors) = 1
    /\ Len(calls) <= Len(RunOrder)
    /\ calls = SubSeq(RunOrder, 1, Len(calls))
    /\ [i \in 1..Len(history) |-> history[i].method] = calls
    /\ pc # "start" => logfile = AllLines(history)
    /\ \A i \in 1..Len(history) : history[i].raised => (i = Len(history) /\ pc = "crashed")
    /\ pc = "done" => calls = RunOrder
    /\ (pc = "crashed" /\ monitors # <<>>) => history[Len(history)].raised

C8_Witness == pc = "done" /\ calls = RunOrder /\ Len(monitors) = 1

\* the addresses of the table, each with the name of its interface, in order
RECURSIVE Flat(_)
Flat(table) ==
    IF table = <<>> THEN <<>>
    ELSE [j \in 1..Len(table[1].addrs) |-> [name |-> table[1].name, address |-> table[1].addrs[j]]]
         \o Flat(Tail(table))

\* C9: network_info emits, for each interface in order and each of its
\* addresses in order, exactly four fact lines (type, address, netmask,
\* broadcast) whatever the family; the address line of an IPv4 address is
\* labelled differently from that of a link-layer address; and the two
\* total-bytes lines come once, after the lines of all interfaces.
C9_FourLinesPerAddress ==
    \A i \in Entries("network_info") :
        LET f == Facts(history[i].lines)
            a == Flat(monitors[1].if_addrs)
            n == Len(a)
        IN /\ ~history[i].raised
           /\ Len(f) = 4 * n + 2
           /\ Keys(SubSeq(f, 4 * n + 1, 4 * n + 2)) = <<"bytes_sent", "bytes_recv">>
           /\ \A k \in 1..n :
                LET g == SubSeq(f, 4 * k - 3, 4 * k)
                IN /\ \A x \in 1..4 : g[x].subj = a[k].name
                   /\ <<g[1].key, g[3].key, g[4].key>> = <<"if_type", "netmask", "broadcast">>
                   /\ <<g[1].val, g[2].val, g[3].val, g[4].val>>
                        = <<a[k].address.family, a[k].address.address,
                            a[k].address.netmask, a[k].address.broadcast>>
                   /\ g[2].key \notin {"if_type", "netmask", "broadcast", "bytes_sent", "bytes_recv"}
                   /\ \A k2 \in 1..n :
                        (/\ a[k].address.family = "AddressFamily.AF_INET"
                         /\ a[k2].address.family = "AddressFamily.AF_PACKET")
                        => g[2].key # f[4 * k2 - 2].key

\* two interfaces, one with an IPv4 address and one with a link-layer address
C9_Witness ==
    \E i \in Entries("network_info") :
        /\ Len(monitors[1].if_addrs) = 2
        /\ monitors[1].if_addrs[1].addrs[1].family = "AddressFamily.AF_PACKET"
        /\ monitors[1].if_addrs[2].addrs[1].family = "AddressFamily.AF_INET"
        /\ Len(Facts(history[i].lines)) = 10

\* the first partition whose usage query fails other than by permission (0: none)
FirstFailure(e) ==
    LET bad == {p \in 1..Len(monitors[1].partitions) :
                   e.os.disk_usage[monitors[1].partitions[p].mountpoint].raises = "OSError"}
    IN IF bad = {} THEN 0 ELSE CHOOSE p \in bad : \A q \in bad : p <= q

\* C10: a failure at construction ends the run before any method emits
\* anything; a usage query failing other than by permission propagates out of
\* disk_info and ends the run, so no later partition and no network line is
\* emitted, while the lines emitted before the failure stay in console and log.
C10_OtherFailuresFatal ==
    /\ (pc = "crashed" /\ monitors = <<>>) => (calls = <<>> /\ console = <<>> /\ logfile = <<>>)
    /\ \A i \in Entries("disk_info") :
         LET e == history[i]
             parts == monitors[1].partitions
             p == FirstFailure(e)
         IN p # 0 =>
              /\ e.raised
              /\ pc = "crashed"
              /\ i = Len(history)
              /\ Entries("network_info") = {}
              /\ \A q \in 1..Len(parts) : q > p => About(e.lines, parts[q].device) = <<>>
              /\ Keys(About(e.lines, parts[p].device)) = <<"fstype">>
              /\ logfile = AllLines(SubSeq(history, 1, i - 1)) \o e.lines
              /\ Undecorated(console) = logfile

\* the usage query of the first of two partitions fails after three domains were printed
C10_Witness ==
    \E i \in Entries("disk_info") :
        /\ Len(monitors[1].partitions) = 2
        /\ FirstFailure(history[i]) = 1
        /\ pc = "crashed"
        /\ i = 4
        /\ Len(Facts(logfile)) >= 10

====
